---- MODULE Spec2Model ----
(***************************************************************************)
(* A token-vesting ("stream") program: one stream record (metadata), its   *)
(* escrow token account, the token ledger it moves value on, and the five  *)
(* handlers create / withdraw / cancel / transfer_recipient / topup_stream *)
(* of src/src/token.rs with the schedule functions of src/src/state.rs.    *)
(*                                                                         *)
(* A handler runs to completion inside one transaction.  When it returns   *)
(* an error (or panics) the host discards every write of the transaction,  *)
(* so a failed call changes nothing but the record of the last call.       *)
(***************************************************************************)
EXTENDS Integers, Sequences, FiniteSets, TLC

VARIABLES
    now,              \* Clock::get()?.unix_timestamp
    metadata,         \* the TokenStreamData stored in the metadata account
    tokens,           \* token ledger: balance of every token account
    exists,           \* token ledger: the token accounts that are initialised
    overflow_checks,  \* build profile: TRUE = arithmetic overflow panics
    res               \* the last call: handler, result code, ledger calls made

vars == <<now, metadata, tokens, exists, overflow_checks, res>>

----------------------------------------------------------------------------
(* Bounds of the model *)

MaxTime == 5          \* the clock runs over 0..MaxTime
InitBalance == 5      \* tokens the funded wallet holds at the start
MaxDeposit == 4       \* no top-up raises deposited_amount above MaxDeposit
MaxTopUp == 2         \* the largest amount topup_stream is called with
MaxWithdraw == 3      \* the largest amount withdraw is called with

\* u64 arithmetic wraps modulo 2^64 when overflow checks are off.  The model
\* keeps every amount far below Modulus, which stands for 2^64: a wrapped
\* value is larger than every balance, as it is on the real width.
Modulus == 65536

Wallets == {"alice", "bob", "carol"}
Mint == "mint"
Mints == {"mint", "mint2"}

\* get_associated_token_address(wallet, mint)
get_associated_token_address(w, m) == <<w, m>>

\* Pubkey::find_program_address(&[metadata.key], program_id): the escrow
EscrowKey == <<"pda", "metadata">>
OtherKey == <<"pda", "other">>

LedgerAccounts == {get_associated_token_address(w, Mint) : w \in Wallets} \cup {EscrowKey}

\* the owner (authority) of a token account of the ledger
TokenOwner(k) == IF k = EscrowKey THEN EscrowKey ELSE k[1]

PROGRAM_VERSION == 2

\* Panic: the value of an expression whose evaluation aborts the program
Panic == -1

----------------------------------------------------------------------------
(* u64 arithmetic *)

\* a - b on u64
Sub(a, b) ==
    IF a = Panic \/ b = Panic THEN Panic
    ELSE IF a >= b THEN a - b
    ELSE IF overflow_checks THEN Panic
    ELSE a - b + Modulus

\* a + b on u64
Add(a, b) ==
    IF a = Panic \/ b = Panic THEN Panic
    ELSE IF a + b < Modulus THEN a + b
    ELSE IF overflow_checks THEN Panic
    ELSE a + b - Modulus

\* a / b on u64: division by zero always panics
Div(a, b) ==
    IF a = Panic \/ b = Panic \/ b = 0 THEN Panic
    ELSE a \div b

----------------------------------------------------------------------------
(* state.rs: the record and the release schedule *)

StreamInstructionDefault ==
    [start_time |-> 0, end_time |-> 0, deposited_amount |-> 0, total_amount |-> 0,
     period |-> 1, cliff |-> 0, cliff_amount |-> 0,
     withdrawal_public |-> FALSE,
     transferable_by_sender |-> FALSE, transferable_by_recipient |-> TRUE,
     release_rate |-> 0]

\* the metadata account before create: no data (magic 0 stands for data_is_empty)
EmptyMetadata ==
    [magic |-> 0, created_at |-> 0, withdrawn_amount |-> 0, canceled_at |-> 0,
     closable_at |-> 0, last_withdrawn_at |-> 0,
     sender |-> "none", sender_tokens |-> OtherKey,
     recipient |-> "none", recipient_tokens |-> OtherKey,
     mint |-> "none", escrow_tokens |-> OtherKey,
     ix |-> StreamInstructionDefault]

\* TokenStreamData::new
TokenStreamDataNew(created_at, acc, ix) ==
    [magic |-> PROGRAM_VERSION, created_at |-> created_at, withdrawn_amount |-> 0,
     canceled_at |-> 0, closable_at |-> ix.end_time, last_withdrawn_at |-> 0,
     sender |-> acc.sender, sender_tokens |-> acc.sender_tokens,
     recipient |-> acc.recipient, recipient_tokens |-> acc.recipient_tokens,
     mint |-> acc.mint, escrow_tokens |-> acc.escrow_tokens,
     ix |-> ix]

(***************************************************************************)
(* IEEE-754 binary64 arithmetic on the non-negative finite values that     *)
(* available() computes with.  A value is [m |-> limbs, e |-> exponent],   *)
(* standing for m * 2^e; m is a natural number of at most                  *)
(* F64_MANTISSA_BITS bits written as a sequence of limbs of LIMB_BITS bits,*)
(* least significant first, without leading zero limbs (<<>> is 0).        *)
(***************************************************************************)
F64_MANTISSA_BITS == 53

LIMB_BITS == 15

RECURSIVE Pow2(_)
Pow2(k) == IF k = 0 THEN 1 ELSE 2 * Pow2(k - 1)

LimbBase == Pow2(LIMB_BITS)

RECURSIVE NatBitLen(_)
\* the number of bits of a natural number
NatBitLen(n) == IF n = 0 THEN 0 ELSE 1 + NatBitLen(n \div 2)

RECURSIVE LimbsOf(_)
\* the limbs of a natural number
LimbsOf(n) == IF n = 0 THEN <<>> ELSE <<n % LimbBase>> \o LimbsOf(n \div LimbBase)

RECURSIVE NatOf(_)
\* the natural number of a sequence of limbs
NatOf(a) == IF a = <<>> THEN 0 ELSE a[1] + LimbBase * NatOf(Tail(a))

\* the limbs 1..n of a
TrimTo(a, n) == IF n = 0 THEN <<>> ELSE SubSeq(a, 1, n)

\* without leading zero limbs
Trim(a) == TrimTo(a, Cardinality({i \in 1..Len(a) : \E j \in i..Len(a) : a[j] # 0}))

\* limb i of a, 0 beyond its length
LimbAt(a, i) == IF i <= Len(a) THEN a[i] ELSE 0

\* the number of bits of a
BitLen(a) ==
    IF a = <<>> THEN 0 ELSE LIMB_BITS * (Len(a) - 1) + NatBitLen(a[Len(a)])

\* bit p of a, bit 0 the least significant
BitAt(a, p) == (LimbAt(a, p \div LIMB_BITS + 1) \div Pow2(p % LIMB_BITS)) % 2

\* a >= b
LimbsGeq(a, b) ==
    IF Len(a) # Len(b) THEN Len(a) > Len(b)
    ELSE \A i \in 1..Len(a) : a[i] < b[i] => \E j \in (i + 1)..Len(a) : a[j] > b[j]

RECURSIVE MulAddFrom(_, _, _, _)
\* the limbs i.. of a * n + c, entered with the carry
MulAddFrom(a, n, i, carry) ==
    IF i > Len(a) THEN (IF carry = 0 THEN <<>> ELSE <<carry>>)
    ELSE <<(a[i] * n + carry) % LimbBase>>
         \o MulAddFrom(a, n, i + 1, (a[i] * n + carry) \div LimbBase)

\* a * n + c for natural numbers n, c < LimbBase
MulAdd(a, n, c) == Trim(MulAddFrom(a, n, 1, c))

RECURSIVE LimbsSubFrom(_, _, _, _)
\* the limbs i.. of a - b, entered with the borrow
LimbsSubFrom(a, b, i, borrow) ==
    IF i > Len(a) THEN <<>>
    ELSE <<(a[i] - LimbAt(b, i) - borrow) % LimbBase>>
         \o LimbsSubFrom(a, b, i + 1, IF a[i] - LimbAt(b, i) - borrow < 0 THEN 1 ELSE 0)

\* a - b for a >= b
LimbsSub(a, b) == Trim(LimbsSubFrom(a, b, 1, 0))

RECURSIVE LimbsAddFrom(_, _, _, _)
\* the limbs i.. of a + b, entered with the carry
LimbsAddFrom(a, b, i, carry) ==
    IF i > Len(a) /\ i > Len(b) THEN (IF carry = 0 THEN <<>> ELSE <<carry>>)
    ELSE <<(LimbAt(a, i) + LimbAt(b, i) + carry) % LimbBase>>
         \o LimbsAddFrom(a, b, i + 1, (LimbAt(a, i) + LimbAt(b, i) + carry) \div LimbBase)

RECURSIVE LimbsMul(_, _)
\* a * b
LimbsMul(a, b) ==
    IF a = <<>> \/ b = <<>> THEN <<>>
    ELSE Trim(LimbsAddFrom(MulAdd(a, b[1], 0), <<0>> \o LimbsMul(a, Tail(b)), 1, 0))

\* a * 2^k
ShiftLeft(a, k) ==
    IF a = <<>> THEN <<>>
    ELSE [i \in 1..(k \div LIMB_BITS) |-> 0] \o MulAdd(a, Pow2(k % LIMB_BITS), 0)

\* a \div (2^LIMB_BITS)^w \div p for a power p of two below LimbBase
ShiftRightBy(a, w, p) ==
    Trim([j \in 1..Len(a) |->
             (LimbAt(a, j + w) \div p) + (LimbAt(a, j + w + 1) % p) * (LimbBase \div p)])

\* a \div 2^k
ShiftRight(a, k) == ShiftRightBy(a, k \div LIMB_BITS, Pow2(k % LIMB_BITS))

\* m * 2^e for a mantissa that rounding up may have taken to one bit more
F64Renormalised(m, e) ==
    IF BitLen(m) > F64_MANTISSA_BITS THEN [m |-> ShiftRight(m, 1), e |-> e + 1]
    ELSE [m |-> m, e |-> e]

\* round to nearest, ties to even: the bits of q below bit cut are more than
\* half of bit cut, or half of it with bit cut set
F64RoundsUp(q, sticky, cut) ==
    /\ BitAt(q, cut - 1) = 1
    /\ sticky \/ BitAt(q, cut) = 1 \/ \E p \in 0..(cut - 2) : BitAt(q, p) = 1

\* q * 2^e, inexact below its last bit when sticky, without its last cut bits
F64RoundCut(q, sticky, e, cut) ==
    IF cut <= 0 THEN [m |-> q, e |-> e]
    ELSE F64Renormalised(
             MulAdd(ShiftRight(q, cut), 1, IF F64RoundsUp(q, sticky, cut) THEN 1 ELSE 0),
             e + cut)

\* q * 2^e, inexact below its last bit when sticky, rounded to the nearest
\* value of F64_MANTISSA_BITS bits, ties to even
F64Round(q, sticky, e) == F64RoundCut(q, sticky, e, BitLen(q) - F64_MANTISSA_BITS)

\* `n as f64` for a natural number n < 2^F64_MANTISSA_BITS: exact
F64Of(n) == [m |-> LimbsOf(n), e |-> 0]

\* one step of the long division by d: the remainder doubled to r2 holds d or not
F64DivBit(d, s, r2, ge) ==
    [q |-> MulAdd(s.q, 2, IF ge THEN 1 ELSE 0),
     r |-> IF ge THEN LimbsSub(r2, d) ELSE r2,
     k |-> s.k - 1]

F64DivStep(d, s, r2) == F64DivBit(d, s, r2, LimbsGeq(r2, d))

RECURSIVE F64DivSteps(_, _)
\* long division by d: s.k more bits of the quotient s.q, remainder s.r < d
F64DivSteps(d, s) ==
    IF s.k = 0 THEN s ELSE F64DivSteps(d, F64DivStep(d, s, MulAdd(s.r, 2, 0)))

\* the quotient s.q * 2^e of a long division that left the remainder s.r
F64DivResult(s, e) == F64Round(s.q, s.r # <<>>, e)

\* x.m * 2^a / (y.m * 2^b) with x.m * 2^a < y.m * 2^b < 4 * x.m * 2^a, the
\* quotient taken to k bits after the point before rounding
F64DivShifted(x, y, a, b, k) ==
    F64DivResult(F64DivSteps(ShiftLeft(y.m, b),
                             [q |-> <<>>, r |-> ShiftLeft(x.m, a), k |-> k]),
                 x.e - y.e + b - a - k)

\* x / y for mantissas of lx and ly bits
F64DivAligned(x, y, lx, ly) ==
    F64DivShifted(x, y, IF ly - 1 > lx THEN ly - 1 - lx ELSE 0,
                        IF lx + 1 > ly THEN lx + 1 - ly ELSE 0,
                  F64_MANTISSA_BITS + 3)

\* x / y for y > 0
F64Div(x, y) == IF x.m = <<>> THEN x ELSE F64DivAligned(x, y, BitLen(x.m), BitLen(y.m))

\* x * y
F64Mul(x, y) == F64Round(LimbsMul(x.m, y.m), FALSE, x.e + y.e)

\* the integral part of x
F64Trunc(x) == NatOf(IF x.e >= 0 THEN ShiftLeft(x.m, x.e) ELSE ShiftRight(x.m, -x.e))

\* `x as u64`: the integral part, the cast saturates at u64::MAX
F64AsU64(x) ==
    IF BitLen(x.m) + x.e > NatBitLen(Modulus - 1) THEN Modulus - 1 ELSE F64Trunc(x)

\* (periods_passed as f64 * period_amount) as u64 with
\* period_amount = diff as f64 / num_periods and
\* num_periods = span as f64 / period as f64, for period > 0.  With span = 0
\* num_periods is 0.0, period_amount is infinite (NaN for diff = 0) and the
\* cast of the product saturates: u64::MAX for an infinity, 0 for a NaN.
F64ScheduledOf(periods_passed, diff, span, period) ==
    IF span = 0 THEN (IF diff = 0 \/ periods_passed = 0 THEN 0 ELSE Modulus - 1)
    ELSE F64AsU64(F64Mul(F64Of(periods_passed),
                         F64Div(F64Of(diff), F64Div(F64Of(span), F64Of(period)))))

\* the arguments of F64ScheduledOf that the streams of Spec reach before
\* end_time; diff is at most total_amount, or wraps to Modulus - 1 for the
\* cliff_amount above it when overflow_checks is off
F64TableDomain ==
    {a \in (0..MaxTime) \X ((0..MaxDeposit) \cup {Modulus - 1}) \X (1..MaxTime) \X (1..MaxTime) :
        a[1] * a[4] <= a[3]}

\* F64ScheduledOf computed once over F64TableDomain
F64ScheduledTable ==
    [a \in F64TableDomain |-> F64ScheduledOf(a[1], a[2], a[3], a[4])] @@ <<>>

\* (periods_passed as f64 * period_amount) as u64, as available computes it
F64Scheduled(periods_passed, diff, span, period) ==
    IF <<periods_passed, diff, span, period>> \in F64TableDomain
    THEN F64ScheduledTable[<<periods_passed, diff, span, period>>]
    ELSE F64ScheduledOf(periods_passed, diff, span, period)

\* available returns 0 at once: the stream or its cliff has not begun at t
not_begun(md, t) == md.ix.start_time > t \/ md.ix.cliff > t

\* the amount available subtracts withdrawn_amount from at time t: the deposit
\* from end_time on, else the amount of the periods passed plus cliff_amount
vested(md, t) ==
    LET ix == md.ix IN
    IF t >= ix.end_time /\ ix.release_rate = 0 THEN ix.deposited_amount
    ELSE
      LET cliff == IF ix.cliff > 0 THEN ix.cliff ELSE ix.start_time
          cliff_amount == IF ix.cliff_amount > 0 THEN ix.cliff_amount ELSE 0
          span == Sub(ix.end_time, cliff)
          diff == IF ix.release_rate > 0 THEN 0 ELSE Sub(ix.total_amount, cliff_amount)
          periods_passed == Div(t - cliff, ix.period)
          scheduled ==
              IF span = Panic \/ diff = Panic \/ periods_passed = Panic THEN Panic
              ELSE IF ix.release_rate > 0 THEN periods_passed * ix.release_rate
              ELSE F64Scheduled(periods_passed, diff, span, ix.period)
      IN  Add(scheduled, cliff_amount)

\* TokenStreamData::available
available(md, t) ==
    IF not_begun(md, t) THEN 0
    ELSE Sub(vested(md, t), md.withdrawn_amount)

\* TokenStreamData::closable
closable(md) ==
    LET ix == md.ix
        cliff_time == IF ix.cliff > 0 THEN ix.cliff ELSE ix.start_time
        cliff_amount == IF ix.cliff_amount > 0 THEN ix.cliff_amount ELSE 0
    IN
    IF ix.deposited_amount < cliff_amount THEN cliff_time
    ELSE
      LET seconds_nr == Sub(ix.end_time, cliff_time)
          amount_per_second ==
              IF ix.release_rate > 0 THEN Div(ix.release_rate, ix.period)
              ELSE Div(Sub(ix.total_amount, cliff_amount), seconds_nr)
          seconds_left == Add(Div(ix.deposited_amount - cliff_amount, amount_per_second), 1)
          at == Add(cliff_time, seconds_left)
      IN  IF at = Panic THEN Panic
          ELSE IF at > ix.end_time /\ ix.release_rate = 0 THEN ix.end_time
          ELSE at

\* a variant that does not look at the cliff
duration_sanity_ignores_cliff(t, start, end, cliff) == t < start /\ start < end

\* utils.rs duration_sanity
duration_sanity(t, start, end, cliff) ==
    LET cliff_cond == IF cliff = 0 THEN TRUE ELSE start <= cliff /\ cliff <= end
    IN  t < start /\ start < end /\ cliff_cond

----------------------------------------------------------------------------
(* The token ledger (spl_token) and the calls a handler makes on it *)

Call(c, src, dst, wallet, amount) ==
    [call |-> c, src |-> src, dst |-> dst, wallet |-> wallet, amount |-> amount]

\* spl_token::instruction::transfer accepted by the ledger L = [tokens, exists]
TransferOk(L, src, dst, authority, signed, amount) ==
    /\ src \in L.exists /\ dst \in L.exists
    /\ TokenOwner(src) = authority /\ signed
    /\ amount # Panic /\ L.tokens[src] >= amount

\* the ledger after an accepted transfer
Transfer(L, src, dst, amount) ==
    IF src = dst THEN L
    ELSE [L EXCEPT !.tokens = [@ EXCEPT ![src] = @ - amount, ![dst] = @ + amount]]

\* spl_token::instruction::close_account: only an empty account can be closed
CloseOk(L, k) == k \in L.exists /\ L.tokens[k] = 0

CloseAccount(L, k) == [L EXCEPT !.exists = @ \ {k}]

\* create_associated_token_account / initialize_account: a new, empty account
InitAccount(L, k) == [L EXCEPT !.exists = @ \cup {k}, !.tokens = [@ EXCEPT ![k] = 0]]

Ledger == [tokens |-> tokens, exists |-> exists]

\* a handler that returned an error: the transaction is rolled back
Err(e, tr) ==
    [err |-> e, metadata |-> metadata, tokens |-> tokens, exists |-> exists, trace |-> tr]

\* a handler that returned Ok(()) with the record md and the ledger L
Done(md, L, tr) ==
    [err |-> "Ok", metadata |-> md, tokens |-> L.tokens, exists |-> L.exists, trace |-> tr]

\* acc.X.data_is_empty() for a token account reference
data_is_empty(k) == k \notin exists

\* a variant of the first check that looks at the metadata account only
stream_uninitialized_metadata_only(acc) == metadata.magic = 0

\* the first check of withdraw, cancel, transfer_recipient and topup_stream:
\* the metadata account or the escrow token account holds no data
stream_uninitialized(acc) ==
    data_is_empty(acc.escrow_tokens) \/ metadata.magic = 0

----------------------------------------------------------------------------
(* token.rs: withdraw *)

\* a variant of the bindings without withdraw_authority = recipient
withdraw_accounts_bound_any_authority(acc) ==
    /\ acc.token_program_ok
    /\ acc.escrow_tokens = EscrowKey
    /\ acc.recipient_tokens = get_associated_token_address(acc.recipient, acc.mint)

\* the address bindings withdraw checks before it reads the record
withdraw_accounts_bound(acc) ==
    /\ acc.token_program_ok
    /\ acc.escrow_tokens = EscrowKey
    /\ acc.recipient_tokens = get_associated_token_address(acc.recipient, acc.mint)
    /\ acc.withdraw_authority = acc.recipient

\* the accounts of the call are the ones stored in the record
withdraw_accounts_match(acc, md) ==
    /\ acc.recipient = md.recipient
    /\ acc.recipient_tokens = md.recipient_tokens
    /\ acc.mint = md.mint
    /\ acc.escrow_tokens = md.escrow_tokens

\* a variant that lets every amount through
withdraw_exceeds_never(amount, avail) == FALSE

\* the amount asked for is more than what is available
withdraw_exceeds(amount, avail) == amount > avail

\* requested: amount 0 asks for everything available
withdraw_requested(amount, avail) == IF amount = 0 THEN avail ELSE amount

\* a variant of the update that books everything available, not the request
withdraw_update_books_available(md, requested, t) ==
    [md EXCEPT !.withdrawn_amount = Add(@, available(md, t)), !.last_withdrawn_at = t]

\* the record after the transfer of requested at time t
withdraw_update(md, requested, t) ==
    [md EXCEPT !.withdrawn_amount = Add(@, requested), !.last_withdrawn_at = t]

\* a variant that closes the escrow only when total_amount was withdrawn
withdraw_closes_at_total(md) == md.withdrawn_amount = md.ix.total_amount

\* the withdrawal emptied the stream: the escrow is closed
withdraw_closes(md) == md.withdrawn_amount = md.ix.deposited_amount

withdraw(acc, amount) ==
    IF stream_uninitialized(acc)
    THEN Err("UninitializedAccount", <<>>)
    ELSE IF ~acc.writable
    THEN Err("InvalidAccountData", <<>>)
    ELSE IF ~withdraw_accounts_bound(acc)
    THEN Err("InvalidAccountData", <<>>)
    ELSE IF ~acc.authority_is_signer
    THEN Err("MissingRequiredSignature", <<>>)
    ELSE IF ~withdraw_accounts_match(acc, metadata)
    THEN Err("InvalidAccountData", <<>>)
    ELSE
    LET avail == available(metadata, now)
        requested == withdraw_requested(amount, avail)
        t1 == <<Call("transfer", acc.escrow_tokens, acc.recipient_tokens, "none", requested)>>
        L1 == Transfer(Ledger, acc.escrow_tokens, acc.recipient_tokens, requested)
        md1 == withdraw_update(metadata, requested, now)
        t2 == Append(t1, Call("write", OtherKey, OtherKey, "none", 0))
        t3 == Append(t2, Call("close_account", acc.escrow_tokens, OtherKey, acc.sender, 0))
    IN
    IF avail = Panic THEN Err("Panic", <<>>)
    ELSE IF withdraw_exceeds(amount, avail) THEN Err("InvalidArgument", <<>>)
    ELSE IF ~TransferOk(Ledger, acc.escrow_tokens, acc.recipient_tokens,
                        acc.escrow_tokens, TRUE, requested)
    THEN Err("TokenProgramError", t1)
    ELSE IF md1.withdrawn_amount = Panic THEN Err("Panic", t1)
    ELSE IF withdraw_closes(md1)
    THEN IF ~acc.sender_is_writable \/ acc.sender # md1.sender
         THEN Err("InvalidAccountData", t2)
         ELSE IF ~CloseOk(L1, acc.escrow_tokens) THEN Err("TokenProgramError", t3)
         ELSE Done(md1, CloseAccount(L1, acc.escrow_tokens), t3)
    ELSE Done(md1, L1, t2)

----------------------------------------------------------------------------
(* token.rs: cancel *)

\* a variant for which a cancellation is early only before start_time
cancel_is_early_before_start(md, t) == t < md.ix.start_time

\* an early cancellation: before closable_at
cancel_is_early(md, t) == t < md.closable_at

\* a variant of the match that compares neither sender nor sender_tokens
cancel_accounts_match_any_sender(acc, md) ==
    /\ acc.recipient = md.recipient
    /\ acc.recipient_tokens = md.recipient_tokens
    /\ acc.mint = md.mint
    /\ acc.escrow_tokens = md.escrow_tokens

\* the accounts of the call are the ones stored in the record
cancel_accounts_match(acc, md) ==
    /\ acc.sender = md.sender
    /\ acc.sender_tokens = md.sender_tokens
    /\ acc.recipient = md.recipient
    /\ acc.recipient_tokens = md.recipient_tokens
    /\ acc.mint = md.mint
    /\ acc.escrow_tokens = md.escrow_tokens

\* a variant of the update that stamps the record at every cancellation
cancel_update_stamps_always(md, avail, t) ==
    [md EXCEPT !.withdrawn_amount = Add(@, avail),
               !.last_withdrawn_at = t,
               !.canceled_at = t]

\* the record cancel persists at time t after moving avail to the recipient
cancel_update(md, avail, t) ==
    [md EXCEPT !.withdrawn_amount = Add(@, avail),
               !.last_withdrawn_at = IF cancel_is_early(md, t) THEN t ELSE @,
               !.canceled_at = IF cancel_is_early(md, t) THEN t ELSE @]

cancel(acc) ==
    IF stream_uninitialized(acc)
    THEN Err("UninitializedAccount", <<>>)
    ELSE IF ~acc.writable
    THEN Err("InvalidAccountData", <<>>)
    ELSE IF \/ ~acc.token_program_ok
            \/ acc.escrow_tokens # EscrowKey
            \/ acc.recipient_tokens # get_associated_token_address(acc.recipient, acc.mint)
    THEN Err("InvalidAccountData", <<>>)
    ELSE IF cancel_is_early(metadata, now) /\ acc.cancel_authority # acc.sender
    THEN Err("InvalidAccountData", <<>>)
    ELSE IF cancel_is_early(metadata, now) /\ ~acc.authority_is_signer
    THEN Err("MissingRequiredSignature", <<>>)
    ELSE IF ~cancel_accounts_match(acc, metadata)
    THEN Err("InvalidAccountData", <<>>)
    ELSE
    LET avail == available(metadata, now)
        t1 == <<Call("transfer", acc.escrow_tokens, acc.recipient_tokens, "none", avail)>>
        L1 == Transfer(Ledger, acc.escrow_tokens, acc.recipient_tokens, avail)
        md1 == cancel_update(metadata, avail, now)
        remains == Sub(md1.ix.deposited_amount, md1.withdrawn_amount)
        t2 == IF remains > 0
              THEN Append(t1, Call("transfer", acc.escrow_tokens, acc.sender_tokens,
                                   "none", remains))
              ELSE t1
        L2 == IF remains > 0
              THEN Transfer(L1, acc.escrow_tokens, acc.sender_tokens, remains)
              ELSE L1
        t3 == Append(t2, Call("close_account", acc.escrow_tokens, OtherKey, acc.sender, 0))
        t4 == Append(t3, Call("write", OtherKey, OtherKey, "none", 0))
    IN
    IF avail = Panic THEN Err("Panic", <<>>)
    ELSE IF ~TransferOk(Ledger, acc.escrow_tokens, acc.recipient_tokens,
                        acc.escrow_tokens, TRUE, avail)
    THEN Err("TokenProgramError", t1)
    ELSE IF remains = Panic THEN Err("Panic", t1)
    ELSE IF remains > 0 /\ ~TransferOk(L1, acc.escrow_tokens, acc.sender_tokens,
                                       acc.escrow_tokens, TRUE, remains)
    THEN Err("TokenProgramError", t2)
    ELSE IF ~CloseOk(L2, acc.escrow_tokens) THEN Err("TokenProgramError", t3)
    ELSE Done(md1, CloseAccount(L2, acc.escrow_tokens), t4)

----------------------------------------------------------------------------
(* token.rs: create *)

MAX_STRING_SIZE == 200

\* the record create builds: TokenStreamData::new, then closable_at recomputed
\* for a partially funded or fixed-rate stream
CreatedMetadata(acc, ix) ==
    LET md == TokenStreamDataNew(now, acc, ix)
    IN  IF ix.deposited_amount < ix.total_amount \/ ix.release_rate > 0
        THEN [md EXCEPT !.closable_at = closable(md)]
        ELSE md

create(acc, ix, name_len) ==
    IF ~data_is_empty(acc.escrow_tokens) \/ metadata.magic # 0
    THEN Err("AccountAlreadyInitialized", <<>>)
    ELSE IF ~acc.writable
    THEN Err("AccountsNotWritable", <<>>)
    ELSE IF \/ ~acc.programs_ok
            \/ acc.escrow_tokens # EscrowKey
            \/ acc.recipient_tokens # get_associated_token_address(acc.recipient, acc.mint)
    THEN Err("InvalidAccountData", <<>>)
    ELSE IF ~acc.sender_is_signer \/ ~acc.metadata_is_signer
    THEN Err("MissingRequiredSignature", <<>>)
    ELSE IF data_is_empty(acc.sender_tokens)
    THEN Err("InvalidAccountData", <<>>)
    ELSE IF acc.sender_tokens[2] # acc.mint
    THEN Err("MintMismatch", <<>>)
    ELSE IF ~duration_sanity(now, ix.start_time, ix.end_time, ix.cliff)
    THEN Err("InvalidArgument", <<>>)
    ELSE IF name_len > MAX_STRING_SIZE
    THEN Err("InvalidArgument", <<>>)
    ELSE
    LET md == CreatedMetadata(acc, ix)
        new_ata == data_is_empty(acc.recipient_tokens)
        t1 == IF new_ata
              THEN <<Call("create_associated_token_account", OtherKey,
                          acc.recipient_tokens, acc.recipient, 0)>>
              ELSE <<>>
        L1 == IF new_ata THEN InitAccount(Ledger, acc.recipient_tokens) ELSE Ledger
        t2 == t1 \o <<Call("create_account", OtherKey, OtherKey, "metadata", 0),
                      Call("write", OtherKey, OtherKey, "none", 0),
                      Call("create_account", OtherKey, acc.escrow_tokens, "none", 0),
                      Call("initialize_account", OtherKey, acc.escrow_tokens, "none", 0)>>
        L2 == InitAccount(L1, acc.escrow_tokens)
        t3 == Append(t2, Call("transfer", acc.sender_tokens, acc.escrow_tokens, acc.sender,
                              md.ix.deposited_amount))
    IN
    IF md.closable_at = Panic THEN Err("Panic", <<>>)
    ELSE IF ~acc.lamports_ok THEN Err("InsufficientFunds", <<>>)
    ELSE IF tokens[acc.sender_tokens] < ix.deposited_amount THEN Err("InsufficientFunds", <<>>)
    ELSE IF ~TransferOk(L2, acc.sender_tokens, acc.escrow_tokens, acc.sender,
                        acc.sender_is_signer, md.ix.deposited_amount)
    THEN Err("TokenProgramError", t3)
    ELSE Done(md, Transfer(L2, acc.sender_tokens, acc.escrow_tokens, md.ix.deposited_amount), t3)

----------------------------------------------------------------------------
(* token.rs: transfer_recipient *)

\* a variant of the update that replaces the recipient but not its token account
transfer_update_keeps_tokens(md, acc) ==
    [md EXCEPT !.recipient = acc.new_recipient]

\* the record after the transfer: the new recipient and its token account
transfer_update(md, acc) ==
    [md EXCEPT !.recipient = acc.new_recipient,
               !.recipient_tokens = acc.new_recipient_tokens]

transfer_recipient(acc) ==
    IF stream_uninitialized(acc)
    THEN Err("UninitializedAccount", <<>>)
    ELSE IF ~acc.wallet_is_signer
    THEN Err("MissingRequiredSignature", <<>>)
    ELSE IF ~acc.writable
    THEN Err("InvalidAccountData", <<>>)
    ELSE IF ~metadata.ix.transferable_by_recipient /\ ~metadata.ix.transferable_by_sender
    THEN Err("TransferNotAllowed", <<>>)
    ELSE IF ~ \/ (metadata.ix.transferable_by_recipient
                    /\ metadata.recipient = acc.authorized_wallet)
              \/ (metadata.ix.transferable_by_sender
                    /\ metadata.sender = acc.authorized_wallet)
    THEN Err("TransferNotAllowed", <<>>)
    ELSE IF \/ acc.new_recipient_tokens
                 # get_associated_token_address(acc.new_recipient, acc.mint)
            \/ acc.mint # metadata.mint
            \/ acc.authorized_wallet # metadata.recipient
            \/ acc.escrow_tokens # metadata.escrow_tokens
            \/ acc.escrow_tokens # EscrowKey
            \/ ~acc.programs_ok
    THEN Err("InvalidAccountData", <<>>)
    ELSE
    LET t1 == <<Call("create_associated_token_account", OtherKey,
                     acc.new_recipient_tokens, acc.new_recipient, 0)>>
        md1 == transfer_update(metadata, acc)
        tw == <<Call("write", OtherKey, OtherKey, "none", 0)>>
    IN
    IF ~data_is_empty(acc.new_recipient_tokens)
    THEN IF ~acc.lamports_ok THEN Err("InsufficientFunds", <<>>)
         \* the associated-token program refuses to create an account that exists
         ELSE Err("AssociatedTokenProgramError", t1)
    ELSE Done(md1, Ledger, tw)

----------------------------------------------------------------------------
(* token.rs: topup_stream *)

\* a variant that accepts every amount, zero included
topup_amount_any(amount) == TRUE

\* the amount of a top-up must not be zero
topup_amount_ok(amount) == amount # 0

\* the stream is closed for top-ups at time t
topup_closed(md, t) == closable(md) < t

\* a variant of the top-up that recomputes closable_at but books no deposit
topup_update_books_nothing(md, amount) ==
    [md EXCEPT !.closable_at = closable(md)]

\* a variant of the top-up that books the deposit but keeps the old closable_at
topup_update_keeps_closable(md, amount) ==
    [md EXCEPT !.ix.deposited_amount = Add(@, amount)]

\* the record after a top-up of amount
topup_update(md, amount) ==
    LET md1 == [md EXCEPT !.ix.deposited_amount = Add(@, amount)]
    IN  [md1 EXCEPT !.closable_at = closable(md1)]

topup_stream(acc, amount) ==
    IF stream_uninitialized(acc)
    THEN Err("UninitializedAccount", <<>>)
    ELSE IF ~acc.writable
    THEN Err("AccountsNotWritable", <<>>)
    ELSE IF ~acc.token_program_ok \/ acc.escrow_tokens # EscrowKey
    THEN Err("InvalidAccountData", <<>>)
    ELSE IF ~acc.sender_is_signer
    THEN Err("MissingRequiredSignature", <<>>)
    ELSE IF data_is_empty(acc.sender_tokens)
    THEN Err("InvalidAccountData", <<>>)
    ELSE IF acc.sender_tokens[2] # acc.mint
    THEN Err("MintMismatch", <<>>)
    ELSE IF ~topup_amount_ok(amount)
    THEN Err("InvalidArgument", <<>>)
    ELSE IF acc.mint # metadata.mint \/ acc.escrow_tokens # metadata.escrow_tokens
    THEN Err("InvalidAccountData", <<>>)
    ELSE
    LET closable_now == closable(metadata)
        t1 == <<Call("transfer", acc.sender_tokens, acc.escrow_tokens, acc.sender, amount)>>
        L1 == Transfer(Ledger, acc.sender_tokens, acc.escrow_tokens, amount)
        md2 == topup_update(metadata, amount)
        t2 == Append(t1, Call("write", OtherKey, OtherKey, "none", 0))
    IN
    IF closable_now = Panic THEN Err("Panic", <<>>)
    ELSE IF topup_closed(metadata, now) THEN Err("StreamClosed", <<>>)
    ELSE IF ~TransferOk(Ledger, acc.sender_tokens, acc.escrow_tokens, acc.sender,
                        acc.sender_is_signer, amount)
    THEN Err("TokenProgramError", t1)
    ELSE IF md2.ix.deposited_amount = Panic \/ md2.closable_at = Panic THEN Err("Panic", t1)
    ELSE Done(md2, L1, t2)

----------------------------------------------------------------------------
(* The calls the model makes: account bundles and payloads *)

ATA(w) == get_associated_token_address(w, Mint)

FundedWallet == "alice"

\* the terms payloads (StreamInstruction) create is called with: a fully funded
\* linear stream, and its variations in one group of fields at a time
Terms(en, dep, per, cl, ca, rr) ==
    [start_time |-> 1, end_time |-> en, deposited_amount |-> dep, total_amount |-> 4,
     period |-> per, cliff |-> cl, cliff_amount |-> ca,
     withdrawal_public |-> FALSE,
     transferable_by_sender |-> FALSE, transferable_by_recipient |-> FALSE,
     release_rate |-> rr]

BaseTerms == Terms(3, 4, 1, 0, 0, 0)

StreamTerms ==
    \* funding, period and duration
    {Terms(en, dep, per, 0, 0, 0) : en \in {3, 4}, dep \in {1, 2, 4}, per \in {0, 1, 2}}
    \* cliffs: none, at start_time, inside the stream, at end_time, past it
    \cup {Terms(3, 4, 1, cl, ca, 0) : cl \in 0..4, ca \in {0, 1, 5}}
    \cup {Terms(3, 2, 1, 2, ca, 0) : ca \in {1, 5}}
    \* fixed release rate
    \cup {Terms(3, dep, per, 0, 0, rr) : dep \in {2, 4}, per \in {1, 2}, rr \in {1, 2}}
    \* a later start, an empty and an inverted duration
    \cup {[BaseTerms EXCEPT !.start_time = st, !.end_time = en] : st \in {2, 3}, en \in {2, 4}}
    \* the capability flags
    \cup {[BaseTerms EXCEPT !.withdrawal_public = TRUE]}
    \cup {[BaseTerms EXCEPT !.transferable_by_sender = ts,
                            !.transferable_by_recipient = tr] : ts \in BOOLEAN, tr \in BOOLEAN}

InitializeAccounts(s, r) ==
    [sender |-> s, sender_is_signer |-> TRUE, metadata_is_signer |-> TRUE,
     sender_tokens |-> ATA(s), recipient |-> r, recipient_tokens |-> ATA(r),
     escrow_tokens |-> EscrowKey, mint |-> Mint,
     writable |-> TRUE, programs_ok |-> TRUE, lamports_ok |-> TRUE]

CreateCalls ==
    {InitializeAccounts(FundedWallet, r) : r \in Wallets}
    \cup {InitializeAccounts(s, FundedWallet) : s \in Wallets}
    \cup {[InitializeAccounts(FundedWallet, "bob") EXCEPT !.sender_is_signer = FALSE],
          [InitializeAccounts(FundedWallet, "bob") EXCEPT !.metadata_is_signer = FALSE],
          [InitializeAccounts(FundedWallet, "bob") EXCEPT !.writable = FALSE],
          [InitializeAccounts(FundedWallet, "bob") EXCEPT !.programs_ok = FALSE],
          [InitializeAccounts(FundedWallet, "bob") EXCEPT !.lamports_ok = FALSE],
          [InitializeAccounts(FundedWallet, "bob") EXCEPT !.escrow_tokens = ATA("carol")],
          [InitializeAccounts(FundedWallet, "bob") EXCEPT !.recipient_tokens = ATA("carol")],
          [InitializeAccounts(FundedWallet, "bob") EXCEPT
               !.mint = "mint2",
               !.recipient_tokens = get_associated_token_address("bob", "mint2")],
          [InitializeAccounts("bob", "carol") EXCEPT !.sender_tokens = ATA(FundedWallet)]}

\* create is called with every payload by the funded wallet, and with every
\* account bundle on the base payload
CreateInputs ==
    {[acc |-> InitializeAccounts(FundedWallet, "bob"), ix |-> ix, name_len |-> 6] :
         ix \in StreamTerms}
    \cup {[acc |-> acc, ix |-> BaseTerms, name_len |-> 6] : acc \in CreateCalls}
    \cup {[acc |-> InitializeAccounts(FundedWallet, "bob"), ix |-> BaseTerms,
           name_len |-> MAX_STRING_SIZE + 1]}

WithdrawAccounts(a, s) ==
    [withdraw_authority |-> a, authority_is_signer |-> s,
     sender |-> metadata.sender, sender_is_writable |-> TRUE,
     recipient |-> a, recipient_tokens |-> ATA(a),
     escrow_tokens |-> EscrowKey, mint |-> Mint,
     writable |-> TRUE, token_program_ok |-> TRUE]

\* withdraw is called by every wallet, signed or not, for itself
WithdrawCalls == {WithdrawAccounts(a, s) : a \in Wallets, s \in BOOLEAN}

\* ... and by the recipient of the record with one account of the bundle changed
WithdrawOddCalls ==
    {[WithdrawAccounts(a, TRUE) EXCEPT !.recipient = r, !.recipient_tokens = ATA(r)] :
             a \in Wallets, r \in Wallets}
    \cup {[WithdrawAccounts(metadata.recipient, TRUE) EXCEPT
               !.sender = w, !.sender_is_writable = b] : w \in Wallets, b \in BOOLEAN}
    \cup {[WithdrawAccounts(metadata.recipient, TRUE) EXCEPT !.writable = FALSE],
          [WithdrawAccounts(metadata.recipient, TRUE) EXCEPT !.token_program_ok = FALSE],
          [WithdrawAccounts(metadata.recipient, TRUE) EXCEPT !.escrow_tokens = ATA(FundedWallet)],
          [WithdrawAccounts(metadata.recipient, TRUE) EXCEPT !.recipient_tokens = ATA(FundedWallet)],
          [WithdrawAccounts(metadata.recipient, TRUE) EXCEPT
               !.mint = "mint2",
               !.recipient_tokens = get_associated_token_address(metadata.recipient, "mint2")]}

WithdrawAmounts == {0, 1, MaxWithdraw}

CancelAccounts(a, s) ==
    [cancel_authority |-> a, authority_is_signer |-> s,
     sender |-> metadata.sender, sender_tokens |-> metadata.sender_tokens,
     recipient |-> metadata.recipient, recipient_tokens |-> metadata.recipient_tokens,
     escrow_tokens |-> EscrowKey, mint |-> Mint,
     writable |-> TRUE, token_program_ok |-> TRUE]

CancelCalls ==
    {CancelAccounts(a, s) : a \in Wallets, s \in BOOLEAN}
    \cup {[CancelAccounts(w, s) EXCEPT !.sender = w, !.sender_tokens = ATA(w)] :
             w \in Wallets, s \in BOOLEAN}
    \cup {[CancelAccounts(metadata.sender, TRUE) EXCEPT
               !.recipient = w, !.recipient_tokens = ATA(w)] : w \in Wallets}
    \cup {[CancelAccounts(metadata.sender, TRUE) EXCEPT !.writable = FALSE],
          [CancelAccounts(metadata.sender, TRUE) EXCEPT !.token_program_ok = FALSE],
          [CancelAccounts(metadata.sender, TRUE) EXCEPT !.escrow_tokens = ATA(FundedWallet)],
          [CancelAccounts(metadata.sender, TRUE) EXCEPT !.sender_tokens = ATA("carol")],
          [CancelAccounts(metadata.sender, TRUE) EXCEPT !.mint = "mint2"]}

TransferAccounts(a, s, n) ==
    [authorized_wallet |-> a, wallet_is_signer |-> s,
     new_recipient |-> n, new_recipient_tokens |-> ATA(n),
     escrow_tokens |-> EscrowKey, mint |-> Mint,
     writable |-> TRUE, programs_ok |-> TRUE, lamports_ok |-> TRUE]

TransferCalls ==
    {TransferAccounts(a, s, n) : a \in Wallets, s \in BOOLEAN, n \in Wallets}
    \cup {[TransferAccounts(metadata.recipient, TRUE, "carol") EXCEPT !.writable = FALSE],
          [TransferAccounts(metadata.recipient, TRUE, "carol") EXCEPT !.programs_ok = FALSE],
          [TransferAccounts(metadata.recipient, TRUE, "carol") EXCEPT !.lamports_ok = FALSE],
          [TransferAccounts(metadata.recipient, TRUE, "carol") EXCEPT
               !.escrow_tokens = ATA(FundedWallet)],
          [TransferAccounts(metadata.recipient, TRUE, "carol") EXCEPT
               !.new_recipient_tokens = ATA("bob")],
          [TransferAccounts(metadata.recipient, TRUE, "carol") EXCEPT !.mint = "mint2"]}

TopUpAccounts(w, s) ==
    [sender |-> w, sender_is_signer |-> s, sender_tokens |-> ATA(w),
     escrow_tokens |-> EscrowKey, mint |-> Mint,
     writable |-> TRUE, token_program_ok |-> TRUE]

\* topup_stream is called by every wallet, signed or not, from its own tokens
TopUpCalls == {TopUpAccounts(w, s) : w \in Wallets, s \in BOOLEAN}

\* ... and with one account of the bundle changed
TopUpOddCalls ==
    {[TopUpAccounts("bob", TRUE) EXCEPT !.sender_tokens = ATA(FundedWallet)],
     [TopUpAccounts(FundedWallet, TRUE) EXCEPT !.writable = FALSE],
     [TopUpAccounts(FundedWallet, TRUE) EXCEPT !.token_program_ok = FALSE],
     [TopUpAccounts(FundedWallet, TRUE) EXCEPT !.escrow_tokens = ATA("bob")],
     [TopUpAccounts(FundedWallet, TRUE) EXCEPT !.mint = "mint2"]}

TopUpAmounts == {0, 1, MaxTopUp}

----------------------------------------------------------------------------
(* The state machine *)

Init ==
    /\ now = 0
    /\ metadata = EmptyMetadata
    /\ tokens = [k \in LedgerAccounts |-> IF k = ATA(FundedWallet) THEN InitBalance ELSE 0]
    /\ exists = {ATA(FundedWallet)}
    /\ overflow_checks \in BOOLEAN
    /\ res = [op |-> "init", err |-> "Ok", trace |-> <<>>]

\* the transaction of one handler call commits its result r
Commit(op, r) ==
    /\ metadata' = r.metadata
    /\ tokens' = r.tokens
    /\ exists' = r.exists
    /\ res' = [op |-> op, err |-> r.err, trace |-> r.trace]
    /\ UNCHANGED <<now, overflow_checks>>

\* once the record exists every create fails on its first check whatever the
\* payload and the other accounts are: one call stands for all of them
Create ==
    \E inp \in (IF metadata.magic = 0 THEN CreateInputs
                ELSE {[acc |-> InitializeAccounts(FundedWallet, "bob"), ix |-> BaseTerms,
                       name_len |-> 6]}) :
        Commit("create", create(inp.acc, inp.ix, inp.name_len))

Withdraw ==
    \/ \E acc \in WithdrawCalls : \E amount \in WithdrawAmounts :
            Commit("withdraw", withdraw(acc, amount))
    \/ \E acc \in WithdrawOddCalls : Commit("withdraw", withdraw(acc, 0))

Cancel ==
    \E acc \in CancelCalls : Commit("cancel", cancel(acc))

TransferRecipient ==
    \E acc \in TransferCalls : Commit("transfer_recipient", transfer_recipient(acc))

\* the model stops topping up once deposited_amount would pass MaxDeposit
TopUp ==
    \/ \E acc \in TopUpCalls : \E amount \in TopUpAmounts :
            LET r == topup_stream(acc, amount) IN
            /\ r.metadata.ix.deposited_amount <= MaxDeposit
            /\ Commit("topup_stream", r)
    \/ \E acc \in TopUpOddCalls : Commit("topup_stream", topup_stream(acc, 1))

\* the clock advances
Tick ==
    /\ now < MaxTime
    /\ now' = now + 1
    /\ res' = [op |-> "tick", err |-> "Ok", trace |-> <<>>]
    /\ UNCHANGED <<metadata, tokens, exists, overflow_checks>>

\* a recipient creates its associated token account
CreateTokenAccount ==
    \E w \in {metadata.recipient} \cap Wallets :
        /\ ATA(w) \notin exists
        /\ exists' = exists \cup {ATA(w)}
        /\ res' = [op |-> "create_token_account", err |-> "Ok", trace |-> <<>>]
        /\ UNCHANGED <<now, metadata, tokens, overflow_checks>>

Next ==
    \/ Create
    \/ Withdraw
    \/ Cancel
    \/ TransferRecipient
    \/ TopUp
    \/ Tick
    \/ CreateTokenAccount

Spec == Init /\ [][Next]_vars

----------------------------------------------------------------------------
(* Properties *)

Created == metadata.magic # 0
EscrowOpen == EscrowKey \in exists
Deposited == metadata.ix.deposited_amount
Withdrawn == metadata.withdrawn_amount

\* a call that failed left the record and every balance as they were
Unchanged(r) == r.metadata = metadata /\ r.tokens = tokens /\ r.exists = exists

\* C1: in every reachable state the record satisfies
\* 0 <= withdrawn_amount <= deposited_amount.
WithdrawnWithinDeposited == Created => (0 <= Withdrawn /\ Withdrawn <= Deposited)

\* a stream whose whole deposit has been withdrawn
WithdrawnWithinDeposited_Witness ==
    res.op = "withdraw" /\ res.err = "Ok" /\ Withdrawn = Deposited /\ Deposited > 0

\* C2: whenever the escrow account exists its token balance is
\* deposited_amount - withdrawn_amount.
EscrowBalanceMatchesRecord ==
    EscrowOpen => tokens[EscrowKey] = Deposited - Withdrawn

\* a top-up into a stream from which tokens were already withdrawn
EscrowBalanceMatchesRecord_Witness ==
    res.op = "topup_stream" /\ res.err = "Ok" /\ EscrowOpen /\ Withdrawn > 0

\* the accounts of a cancel call are writable, bound and those of the record
CancelWellFormed(acc) ==
    /\ acc.writable /\ acc.token_program_ok /\ acc.escrow_tokens = EscrowKey
    /\ cancel_accounts_match(acc, metadata)

\* C3: before closable_at a cancel succeeds only for the signing sender; the
\* unsigned sender gets MissingRequiredSignature, any other authority gets
\* InvalidAccountData, and record and balances stay as they were.
EarlyCancelNeedsSender ==
    (Created /\ EscrowOpen /\ now < metadata.closable_at) =>
        \A acc \in CancelCalls :
            LET r == cancel(acc) IN
            /\ r.err = "Ok" =>
                   acc.cancel_authority = metadata.sender /\ acc.authority_is_signer
            /\ (/\ CancelWellFormed(acc)
                /\ acc.cancel_authority = metadata.sender
                /\ ~acc.authority_is_signer)
                   => (r.err = "MissingRequiredSignature" /\ Unchanged(r))
            /\ (CancelWellFormed(acc) /\ acc.cancel_authority # metadata.sender)
                   => (r.err = "InvalidAccountData" /\ Unchanged(r))

\* an early cancel by the sender without its signature was refused
EarlyCancelNeedsSender_Witness ==
    /\ res.op = "cancel" /\ res.err = "MissingRequiredSignature"
    /\ EscrowOpen /\ now < metadata.closable_at

\* C4: a successful cancel moves available(now) to the recipient's tokens, the
\* rest of the escrow (if any) to the sender's tokens, closes the escrow and
\* persists withdrawn_amount + available(now); the two amounts add up to the
\* escrow balance before the cancel.
CancelSettlesEscrow ==
    [][(res'.op = "cancel" /\ res'.err = "Ok") =>
        LET avail == available(metadata, now)
            remains == Deposited - Withdrawn - avail
            toRecipient == Call("transfer", EscrowKey, metadata.recipient_tokens, "none", avail)
            toSender == Call("transfer", EscrowKey, metadata.sender_tokens, "none", remains)
            transfers == SelectSeq(res'.trace, LAMBDA c : c.call = "transfer")
            paid == Transfer(Transfer(Ledger, EscrowKey, metadata.recipient_tokens, avail),
                             EscrowKey, metadata.sender_tokens, remains)
        IN  /\ avail >= 0 /\ remains >= 0
            /\ transfers = IF remains > 0 THEN <<toRecipient, toSender>> ELSE <<toRecipient>>
            /\ avail + remains = tokens[EscrowKey]
            /\ tokens' = paid.tokens
            /\ exists' = exists \ {EscrowKey}
            /\ metadata'.withdrawn_amount = Withdrawn + avail
            /\ \E i \in 1..Len(res'.trace) : res'.trace[i].call = "close_account"
    ]_vars

\* a cancel that paid the recipient and returned the rest to the sender
CancelSettlesEscrow_Witness ==
    /\ res.op = "cancel" /\ res.err = "Ok"
    /\ Len(res.trace) = 4 /\ res.trace[1].amount > 0 /\ res.trace[2].amount > 0

\* the ledger transfers a call made
Transfers(trace) == SelectSeq(trace, LAMBDA c : c.call = "transfer")

\* C5: a cancel executed at now >= closable_at, which needs no signature, finds
\* the stream fully vested: the whole escrow balance goes to the recipient and
\* nothing is returned to the sender.
LateCancelPaysRecipientOnly ==
    (res.op = "cancel" /\ res.err = "Ok" /\ now >= metadata.closable_at) =>
        /\ Len(Transfers(res.trace)) = 1
        /\ res.trace[1].dst = metadata.recipient_tokens
        /\ Withdrawn = Deposited

\* the accounts of a withdraw call are writable and bound to its recipient
WithdrawWellFormed(acc) ==
    /\ acc.writable /\ acc.token_program_ok /\ acc.escrow_tokens = EscrowKey
    /\ acc.mint = metadata.mint
    /\ acc.recipient_tokens = get_associated_token_address(acc.recipient, acc.mint)

AllWithdrawCalls == WithdrawCalls \cup WithdrawOddCalls

\* C6: a withdraw succeeds only for the signing current recipient of the record,
\* whatever withdrawal_public is: a signed call by anyone else (a previous
\* recipient too) gets InvalidAccountData, an unsigned call by the recipient
\* gets MissingRequiredSignature, and nothing changes.
WithdrawNeedsRecipient ==
    (Created /\ EscrowOpen) =>
        \A acc \in AllWithdrawCalls : \A amount \in WithdrawAmounts :
            LET r == withdraw(acc, amount) IN
            /\ r.err = "Ok" =>
                   acc.withdraw_authority = metadata.recipient /\ acc.authority_is_signer
            /\ (/\ WithdrawWellFormed(acc)
                /\ acc.authority_is_signer
                /\ acc.withdraw_authority # metadata.recipient)
                   => (r.err = "InvalidAccountData" /\ Unchanged(r))
            /\ (/\ WithdrawWellFormed(acc)
                /\ acc.withdraw_authority = metadata.recipient
                /\ acc.recipient = metadata.recipient
                /\ ~acc.authority_is_signer)
                   => (r.err = "MissingRequiredSignature" /\ Unchanged(r))

\* a withdraw was refused on a stream whose first recipient, bob, handed it on
\* and whose own signed withdraw is refused with InvalidAccountData
WithdrawNeedsRecipient_Witness ==
    /\ res.op = "withdraw" /\ res.err = "InvalidAccountData"
    /\ EscrowOpen /\ metadata.ix.transferable_by_recipient
    /\ metadata.recipient # "bob" /\ ATA("bob") \in exists
    /\ withdraw(WithdrawAccounts("bob", TRUE), 0).err = "InvalidAccountData"

\* terms a well-meaning sender submits: a period of at least a second and a
\* cliff amount within the total
SaneTerms ==
    /\ metadata.ix.period >= 1
    /\ metadata.ix.cliff_amount <= metadata.ix.total_amount
    /\ metadata.ix.release_rate = 0

\* a withdraw by the signing recipient with the accounts of the record, all of
\* them existing
WithdrawValid(acc) ==
    /\ WithdrawWellFormed(acc)
    /\ acc.withdraw_authority = metadata.recipient /\ acc.authority_is_signer
    /\ acc.recipient = metadata.recipient
    /\ acc.sender = metadata.sender /\ acc.sender_is_writable
    /\ metadata.recipient_tokens \in exists

\* C7: a withdraw with valid accounts and amount a fails with InvalidArgument and
\* changes nothing if a > available(now); otherwise it moves r tokens from the
\* escrow to the recipient's tokens, r = available(now) for a = 0 and r = a
\* otherwise, adds r to withdrawn_amount and sets last_withdrawn_at = now.
WithdrawMovesRequested ==
    (Created /\ EscrowOpen) =>
        \A acc \in AllWithdrawCalls : \A amount \in WithdrawAmounts :
            LET avail == available(metadata, now)
                req == IF amount = 0 THEN avail ELSE amount
                r == withdraw(acc, amount)
            IN  (WithdrawValid(acc) /\ SaneTerms /\ avail # Panic) =>
                    IF amount > avail
                    THEN r.err = "InvalidArgument" /\ Unchanged(r)
                    ELSE /\ r.err = "Ok"
                         /\ Transfers(r.trace) =
                                <<Call("transfer", EscrowKey, metadata.recipient_tokens,
                                       "none", req)>>
                         /\ r.tokens = Transfer(Ledger, EscrowKey,
                                                metadata.recipient_tokens, req).tokens
                         /\ r.metadata.withdrawn_amount = Withdrawn + req
                         /\ r.metadata.last_withdrawn_at = now

\* C8: a withdraw closes the escrow, refunding the sender of the record, exactly
\* when it leaves withdrawn_amount = deposited_amount; such a withdraw with a
\* sender account that is read-only or not the record's fails with
\* InvalidAccountData and changes nothing.
WithdrawClosesWhenEmptied ==
    (Created /\ EscrowOpen) =>
        \A acc \in AllWithdrawCalls : \A amount \in WithdrawAmounts :
            LET r == withdraw(acc, amount)
                g == withdraw([acc EXCEPT !.sender = metadata.sender,
                                          !.sender_is_writable = TRUE], amount)
                closed(x) == EscrowKey \notin x.exists
            IN  /\ r.err = "Ok" =>
                     (closed(r) <=>
                        r.metadata.withdrawn_amount = r.metadata.ix.deposited_amount)
                /\ (r.err = "Ok" /\ closed(r)) =>
                     /\ acc.sender = metadata.sender /\ acc.sender_is_writable
                     /\ r.trace[Len(r.trace)] =
                            Call("close_account", EscrowKey, OtherKey, metadata.sender, 0)
                /\ (/\ g.err = "Ok" /\ closed(g)
                    /\ (~acc.sender_is_writable \/ acc.sender # metadata.sender))
                     => (r.err = "InvalidAccountData" /\ Unchanged(r))

\* a withdraw emptied a partially funded stream and closed its escrow
WithdrawClosesWhenEmptied_Witness ==
    /\ res.op = "withdraw" /\ res.err = "Ok" /\ ~EscrowOpen
    /\ res.trace[Len(res.trace)].call = "close_account"
    /\ Deposited < metadata.ix.total_amount

\* the accounts of a top-up call pass every check before the record is read
TopUpWellFormed(acc) ==
    /\ acc.writable /\ acc.token_program_ok /\ acc.escrow_tokens = EscrowKey
    /\ acc.sender_is_signer /\ acc.sender_tokens \in exists
    /\ acc.mint = metadata.mint /\ acc.sender_tokens[2] = acc.mint

\* C9: a topUp at any time now >= closable(record), the closable time itself
\* included, fails with StreamClosed and changes no amount and no balance.
TopUpRefusedFromClosable ==
    (Created /\ EscrowOpen) =>
        \A acc \in TopUpCalls : \A amount \in TopUpAmounts \ {0} :
            LET r == topup_stream(acc, amount) IN
            (/\ TopUpWellFormed(acc)
             /\ SaneTerms
             /\ closable(metadata) # Panic
             /\ now >= closable(metadata))
                => (r.err = "StreamClosed" /\ Unchanged(r))

\* C10: a topUp succeeds only if the signing sender and the sender token account
\* of the call are the sender and sender token account stored in the record
\* (stated for a stream still open for top-ups).
TopUpOnlyBySender ==
    (/\ Created /\ EscrowOpen /\ SaneTerms
     /\ closable(metadata) # Panic /\ now < closable(metadata)) =>
        \A acc \in TopUpCalls \cup TopUpOddCalls : \A amount \in TopUpAmounts :
            topup_stream(acc, amount).err = "Ok" =>
                /\ acc.sender = metadata.sender
                /\ acc.sender_tokens = metadata.sender_tokens

\* the accounts of a transfer_recipient call are signed, writable, bound and
\* those of the record, and the new recipient has no token account yet
TransferWellFormed(acc) ==
    /\ acc.wallet_is_signer /\ acc.writable /\ acc.programs_ok /\ acc.lamports_ok
    /\ acc.escrow_tokens = EscrowKey /\ acc.mint = metadata.mint
    /\ acc.new_recipient_tokens = get_associated_token_address(acc.new_recipient, acc.mint)
    /\ data_is_empty(acc.new_recipient_tokens)

\* the caller holds a role the flags of the record permit
TransferPermitted(acc) ==
    \/ metadata.ix.transferable_by_recipient /\ acc.authorized_wallet = metadata.recipient
    \/ metadata.ix.transferable_by_sender /\ acc.authorized_wallet = metadata.sender

\* C11: a signed transfer_recipient succeeds if and only if the signer is the
\* current recipient and transferable_by_recipient is set, or the signer is the
\* sender and transferable_by_sender is set; a signer in no permitted role gets
\* TransferNotAllowed.
TransferByPermittedRole ==
    (Created /\ EscrowOpen) =>
        \A acc \in TransferCalls :
            TransferWellFormed(acc) =>
                LET r == transfer_recipient(acc) IN
                /\ r.err = "Ok" <=> TransferPermitted(acc)
                /\ ~TransferPermitted(acc) => r.err = "TransferNotAllowed"

AllTopUpCalls == TopUpCalls \cup TopUpOddCalls

\* C12: a successful topUp with amount > 0 moves exactly amount tokens from the
\* sender token account of the call to the escrow, adds amount to
\* deposited_amount, sets closable_at to closable() of the increased deposit and
\* leaves every other field of the record and every other balance as it was.
TopUpBooksAmount ==
    (Created /\ EscrowOpen) =>
        \A acc \in AllTopUpCalls : \A amount \in TopUpAmounts :
            LET r == topup_stream(acc, amount)
                md1 == [metadata EXCEPT !.ix.deposited_amount = @ + amount]
            IN  r.err = "Ok" =>
                    /\ amount > 0
                    /\ r.tokens = [tokens EXCEPT ![acc.sender_tokens] = @ - amount,
                                                 ![EscrowKey] = @ + amount]
                    /\ r.exists = exists
                    /\ r.metadata = [md1 EXCEPT !.closable_at = closable(md1)]
                    /\ Transfers(r.trace) =
                           <<Call("transfer", acc.sender_tokens, EscrowKey, acc.sender, amount)>>


\* a top-up of 1 token raised a deposit of 1 to 2 and moved closable_at to 3
TopUpBooksAmount_Witness ==
    /\ res.op = "topup_stream" /\ res.err = "Ok" /\ res.trace[1].amount = 1
    /\ Deposited = 2 /\ Withdrawn = 0
    /\ metadata.closable_at = 3 /\ closable([metadata EXCEPT !.ix.deposited_amount = 1]) = 2

\* the accounts of a top-up call pass the writability, address, signer and
\* token-account checks that precede the amount check
TopUpAccountsPass(acc) ==
    /\ acc.writable /\ acc.token_program_ok /\ acc.escrow_tokens = EscrowKey
    /\ acc.sender_is_signer
    /\ ~data_is_empty(acc.sender_tokens) /\ acc.sender_tokens[2] = acc.mint

\* C13: a topUp with amount 0 that passes the account, writability and signer
\* checks fails with InvalidArgument and changes neither the record nor a
\* balance, before and after the closable time of the stream.
TopUpZeroRefused ==
    (Created /\ EscrowOpen) =>
        \A acc \in AllTopUpCalls :
            TopUpAccountsPass(acc) =>
                LET r == topup_stream(acc, 0) IN
                r.err = "InvalidArgument" /\ Unchanged(r)

\* a top-up of 0 was refused on a stream past its closable time
TopUpZeroRefused_Witness ==
    /\ res.op = "topup_stream" /\ res.err = "InvalidArgument" /\ EscrowOpen
    /\ closable(metadata) # Panic /\ closable(metadata) < now
    /\ topup_stream(TopUpAccounts(metadata.sender, TRUE), 1).err = "StreamClosed"

\* C14: a successful transferRecipient moves no tokens and changes only the
\* recipient and recipient_tokens of the record, which become the new recipient
\* and its canonical token account; every other field stays as it was.
TransferChangesRecipientOnly ==
    (Created /\ EscrowOpen) =>
        \A acc \in TransferCalls :
            LET r == transfer_recipient(acc) IN
            r.err = "Ok" =>
                /\ r.tokens = tokens /\ r.exists = exists
                /\ Transfers(r.trace) = <<>>
                /\ r.metadata =
                       [metadata EXCEPT
                            !.recipient = acc.new_recipient,
                            !.recipient_tokens =
                                get_associated_token_address(acc.new_recipient, metadata.mint)]

\* the stream was handed from bob, who had withdrawn from it, to carol
TransferChangesRecipientOnly_Witness ==
    /\ res.op = "transfer_recipient" /\ res.err = "Ok"
    /\ metadata.recipient = "carol" /\ metadata.recipient_tokens = ATA("carol")
    /\ tokens[ATA("bob")] > 0 /\ Withdrawn > 0

\* the stream was cancelled or emptied: the record is there, its escrow is closed
Terminal == Created /\ ~EscrowOpen

\* on a terminal record every call fails and would change nothing; a call
\* naming the escrow of the stream gets UninitializedAccount, a create
\* AccountAlreadyInitialized
ClosedStreamRefusesCalls ==
    Terminal =>
        /\ \A acc \in AllWithdrawCalls : \A amount \in WithdrawAmounts :
               LET r == withdraw(acc, amount) IN
               /\ r.err # "Ok" /\ Unchanged(r)
               /\ acc.escrow_tokens = EscrowKey => r.err = "UninitializedAccount"
        /\ \A acc \in CancelCalls :
               LET r == cancel(acc) IN
               /\ r.err # "Ok" /\ Unchanged(r)
               /\ acc.escrow_tokens = EscrowKey => r.err = "UninitializedAccount"
        /\ \A acc \in TransferCalls :
               LET r == transfer_recipient(acc) IN
               /\ r.err # "Ok" /\ Unchanged(r)
               /\ acc.escrow_tokens = EscrowKey => r.err = "UninitializedAccount"
        /\ \A acc \in AllTopUpCalls : \A amount \in TopUpAmounts :
               LET r == topup_stream(acc, amount) IN
               /\ r.err # "Ok" /\ Unchanged(r)
               /\ acc.escrow_tokens = EscrowKey => r.err = "UninitializedAccount"
        /\ \A inp \in CreateInputs :
               LET r == create(inp.acc, inp.ix, inp.name_len) IN
               r.err = "AccountAlreadyInitialized" /\ Unchanged(r)

\* C15: after a successful cancel, and after a withdraw that closed the escrow,
\* the record is terminal: every later withdraw, cancel, transferRecipient and
\* topUp naming the escrow of the stream fails with UninitializedAccount, every
\* create fails with AccountAlreadyInitialized, and no field of the record and
\* no token balance changes again.
ClosedStreamIsTerminal ==
    /\ []ClosedStreamRefusesCalls
    /\ [][Terminal => (metadata' = metadata /\ tokens' = tokens /\ Terminal')]_vars

\* a top-up was refused on a stream that a withdraw had emptied and closed
ClosedStreamIsTerminal_Witness ==
    /\ Terminal /\ res.op = "topup_stream" /\ res.err = "UninitializedAccount"
    /\ metadata.canceled_at = 0 /\ Withdrawn = Deposited /\ now < metadata.ix.end_time

\* the clock values of the model
Times == 0..MaxTime

\* C16: for a record with fixed terms and withdrawn_amount, partially funded
\* ones included, available is non-decreasing in time up to end_time:
\* available(t1) <= available(t2) for all t1 <= t2 <= end_time (stated for the
\* times from the last withdrawal on, at which available does not underflow).
AvailableNonDecreasing ==
    (Created /\ EscrowOpen /\ SaneTerms) =>
        \A t1 \in Times : \A t2 \in Times :
            (/\ metadata.last_withdrawn_at <= t1 /\ t1 <= t2 /\ t2 <= metadata.ix.end_time
             /\ available(metadata, t1) # Panic /\ available(metadata, t2) # Panic
             /\ available(metadata, t1) < Modulus \div 2)
                => available(metadata, t1) <= available(metadata, t2)

\* C17: for every record create accepts, those with cliff = start_time or with
\* cliff = 0 and cliff_amount > 0 included, available(record, start_time) = 0.
NothingAvailableAtStart ==
    (Created /\ EscrowOpen /\ SaneTerms /\ Withdrawn = 0) =>
        available(metadata, metadata.ix.start_time) = 0

\* C18: closable(record) is the earliest time at which available equals
\* deposited_amount - withdrawn_amount: at t = closable(record) the whole
\* remaining deposit is available and at every earlier time (from the last
\* withdrawal on) it is not.
ClosableIsEarliestFullVesting ==
    (Created /\ EscrowOpen /\ SaneTerms /\ closable(metadata) # Panic) =>
        LET c == closable(metadata)
            rest == Deposited - Withdrawn
        IN  /\ available(metadata, c) = rest
            /\ \A t \in Times :
                   (metadata.last_withdrawn_at <= t /\ t < c)
                       => available(metadata, t) # rest

\* C19: in every reachable state and at every later clock value available
\* never subtracts more than it has: the amount of the periods passed plus
\* cliff_amount (the deposit from end_time on) is at least withdrawn_amount.
AvailableNeverUnderflows ==
    Created =>
        \A t \in Times :
            (t >= now /\ ~not_begun(metadata, t) /\ vested(metadata, t) # Panic)
                => vested(metadata, t) >= Withdrawn

\* the recipient withdrew all that had vested before end_time: the subtraction
\* in available gives exactly 0
AvailableNeverUnderflows_Witness ==
    /\ res.op = "withdraw" /\ res.err = "Ok" /\ EscrowOpen
    /\ Withdrawn > 0 /\ now < metadata.ix.end_time
    /\ vested(metadata, now) = Withdrawn

----------------------------------------------------------------------------
(* The vesting schedule on longer streams: the specification ScheduleSpec   *)
(* creates one stream of ScheduleTerms, lets the clock move through         *)
(* ScheduleTimes and lets the recipient withdraw what is available.         *)

ScheduleBalance == 1000   \* tokens the funded wallet starts with

\* Scenario A: 1000 tokens over 10 periods of 10 seconds
ScenarioA ==
    [BaseTerms EXCEPT !.start_time = 100, !.end_time = 200, !.period = 10,
                      !.total_amount = 1000, !.deposited_amount = 1000]

\* Scenario B: the same with a cliff of 200 tokens at 120
ScenarioB == [ScenarioA EXCEPT !.cliff = 120, !.cliff_amount = 200]

\* the scenarios, and 35 tokens over 7 seconds in periods of 1 and of 3 seconds
ScheduleTerms ==
    {ScenarioA, ScenarioB}
    \cup {[BaseTerms EXCEPT !.end_time = 8, !.period = per,
                            !.total_amount = 35, !.deposited_amount = 35] : per \in {1, 3}}

\* the clock values of ScheduleSpec
ScheduleTimes == {0, 1, 4, 7, 8, 100, 119, 121, 150, 200}

ScheduleInit ==
    /\ now = 0
    /\ metadata = EmptyMetadata
    /\ tokens = [k \in LedgerAccounts |-> IF k = ATA(FundedWallet) THEN ScheduleBalance ELSE 0]
    /\ exists = {ATA(FundedWallet)}
    /\ overflow_checks \in BOOLEAN
    /\ res = [op |-> "init", err |-> "Ok", trace |-> <<>>]

\* the funded wallet creates a stream of ScheduleTerms for bob
ScheduleCreate ==
    /\ metadata.magic = 0
    /\ \E ix \in ScheduleTerms :
          Commit("create", create(InitializeAccounts(FundedWallet, "bob"), ix, 6))

\* bob withdraws everything available
ScheduleWithdraw ==
    /\ metadata.magic # 0
    /\ Commit("withdraw", withdraw(WithdrawAccounts("bob", TRUE), 0))

\* the clock moves on to a later value of ScheduleTimes
ScheduleTick ==
    /\ \E t \in ScheduleTimes : t > now /\ now' = t
    /\ res' = [op |-> "tick", err |-> "Ok", trace |-> <<>>]
    /\ UNCHANGED <<metadata, tokens, exists, overflow_checks>>

ScheduleNext ==
    \/ ScheduleCreate
    \/ ScheduleWithdraw
    \/ ScheduleTick

ScheduleSpec == ScheduleInit /\ [][ScheduleNext]_vars

\* the schedule of the specification, in exact arithmetic: nothing before
\* start_time or the cliff, the remaining deposit from end_time on when
\* release_rate = 0, otherwise floor(periods_passed * period_amount)
\* + cliff_amount - withdrawn_amount with period_amount = release_rate or
\* (total_amount - cliff_amount) / ((end_time - effective_cliff) / period)
ReferenceAvailable(md, t) ==
    LET ix == md.ix
        effective_cliff == IF ix.cliff > 0 THEN ix.cliff ELSE ix.start_time
        cliff_amount == IF ix.cliff_amount > 0 THEN ix.cliff_amount ELSE 0
        periods_passed == (t - effective_cliff) \div ix.period
        scheduled ==
            IF ix.release_rate > 0 THEN periods_passed * ix.release_rate
            ELSE (periods_passed * (ix.total_amount - cliff_amount) * ix.period)
                 \div (ix.end_time - effective_cliff)
    IN  IF t < ix.start_time \/ t < ix.cliff THEN 0
        ELSE IF t >= ix.end_time /\ ix.release_rate = 0
        THEN ix.deposited_amount - md.withdrawn_amount
        ELSE scheduled + cliff_amount - md.withdrawn_amount

\* C20: at every clock value the amount available() returns for the record
\* of a created stream is the amount of the reference schedule of the
\* specification: 0 before start_time or the cliff, deposited_amount -
\* withdrawn_amount from end_time on with release_rate = 0, otherwise
\* floor(periods_passed * period_amount) + cliff_amount - withdrawn_amount
AvailableFollowsReference ==
    Created => available(metadata, now) = ReferenceAvailable(metadata, now)

\* the operations that write the record
Handlers == {"create", "withdraw", "cancel", "transfer_recipient", "topup_stream"}

\* the positions of the calls of a trace that write the record bytes
Writes(trace) == {i \in 1..Len(trace) : trace[i].call = "write"}

\* C21: in every operation that succeeds, writing the new record bytes is the
\* last effect: the write comes after every token transfer and every
\* create/close call of the operation.
RecordWrittenLast ==
    (res.op \in Handlers /\ res.err = "Ok") => Writes(res.trace) = {Len(res.trace)}

\* the step is a cancel that succeeded
CancelSucceeds == res'.op = "cancel" /\ res'.err = "Ok"

\* the step is a create that succeeded
CreateSucceeds == res'.op = "create" /\ res'.err = "Ok"

\* C22: canceled_at is 0 from create on until a cancel succeeds at
\* now < closable_at, which sets canceled_at and last_withdrawn_at to now; a
\* cancel that succeeds at now >= closable_at leaves both as they were; no
\* other operation writes canceled_at, and canceled_at # 0 implies that the
\* escrow has been closed.
CanceledAtStampedByEarlyCancel ==
    /\ []((Created /\ metadata.canceled_at # 0) => ~EscrowOpen)
    /\ [][/\ (CancelSucceeds /\ now < metadata.closable_at) =>
                (metadata'.canceled_at = now /\ metadata'.last_withdrawn_at = now)
          /\ (CancelSucceeds /\ now >= metadata.closable_at) =>
                /\ metadata'.canceled_at = metadata.canceled_at
                /\ metadata'.last_withdrawn_at = metadata.last_withdrawn_at
          /\ CreateSucceeds => metadata'.canceled_at = 0
          /\ (~CancelSucceeds /\ ~CreateSucceeds) =>
                metadata'.canceled_at = metadata.canceled_at]_vars

\* an early cancel has just stamped the record of a stream that bob had
\* withdrawn from before
CanceledAtStampedByEarlyCancel_Witness ==
    /\ res.op = "cancel" /\ res.err = "Ok"
    /\ now > 0 /\ now < metadata.closable_at
    /\ metadata.canceled_at = now /\ metadata.last_withdrawn_at = now
    /\ ~EscrowOpen

\* the accounts pass every check create makes before it looks at the terms
create_accounts_pass(acc) ==
    /\ data_is_empty(acc.escrow_tokens) /\ metadata.magic = 0
    /\ acc.writable /\ acc.programs_ok
    /\ acc.escrow_tokens = EscrowKey
    /\ acc.recipient_tokens = get_associated_token_address(acc.recipient, acc.mint)
    /\ acc.sender_is_signer /\ acc.metadata_is_signer
    /\ ~data_is_empty(acc.sender_tokens)
    /\ acc.sender_tokens[2] = acc.mint

\* C23: a create whose terms do not satisfy now < start_time < end_time and
\* (cliff = 0 or start_time <= cliff <= end_time) fails and persists nothing,
\* with InvalidArgument when its accounts are in order; hence every persisted
\* record has start_time < end_time and, if cliff # 0,
\* start_time <= cliff <= end_time.
CreateValidatesDuration ==
    /\ \A inp \in CreateInputs :
          ~duration_sanity(now, inp.ix.start_time, inp.ix.end_time, inp.ix.cliff) =>
              LET r == create(inp.acc, inp.ix, inp.name_len)
              IN  /\ r.err # "Ok" /\ Unchanged(r)
                  /\ create_accounts_pass(inp.acc) => r.err = "InvalidArgument"
    /\ Created =>
          /\ metadata.created_at < metadata.ix.start_time
          /\ metadata.ix.start_time < metadata.ix.end_time
          /\ metadata.ix.cliff # 0 =>
                /\ metadata.ix.start_time <= metadata.ix.cliff
                /\ metadata.ix.cliff <= metadata.ix.end_time

\* a create with accounts in order has just been refused for its terms: at
\* now >= 1 the stream name is too long only on terms that start too early
CreateValidatesDuration_Witness ==
    /\ res.op = "create" /\ res.err = "InvalidArgument"
    /\ now >= 1 /\ ~Created
    /\ \E inp \in CreateInputs :
          /\ create_accounts_pass(inp.acc)
          /\ inp.ix.start_time >= inp.ix.end_time
          /\ create(inp.acc, inp.ix, inp.name_len).err = "InvalidArgument"

\* C24: every persisted record has period >= 1: create rejects terms whose
\* period is 0.
PeriodAtLeastOne == Created => metadata.ix.period >= 1

----------------------------------------------------------------------------
\* the accounts a handler asked the associated-token program to create
AssociatedAccountsRequested(trace) ==
    {trace[i].dst : i \in {j \in 1..Len(trace) : trace[j].call = "create_associated_token_account"}}

\* C25: transfer_recipient asks for the creation of the new recipient's token
\* account exactly when that account does not exist yet: a successful transfer
\* to a wallet without a token account has requested it, and no call requests
\* an account that already exists.
TransferCreatesMissingAccount ==
    (Created /\ EscrowOpen) =>
        \A acc \in TransferCalls :
            LET r == transfer_recipient(acc) IN
            /\ r.err = "Ok" =>
                   (acc.new_recipient_tokens \in AssociatedAccountsRequested(r.trace)
                        <=> data_is_empty(acc.new_recipient_tokens))
            /\ \A k \in AssociatedAccountsRequested(r.trace) : data_is_empty(k)

----------------------------------------------------------------------------
\* the largest amount a handler asked the token ledger to move out of the escrow
EscrowRequests(trace) ==
    {trace[i].amount : i \in {j \in 1..Len(trace) :
                                 trace[j].call = "transfer" /\ trace[j].src = EscrowKey}}

\* C26: while the escrow is open, at every clock value available(record, now)
\* is at most deposited_amount - withdrawn_amount, for partially funded
\* streams and for streams with a release rate after end_time too; so a
\* withdraw of amount 0 and a cancel never ask the ledger to move more than
\* the escrow holds.
AvailableWithinEscrow ==
    (Created /\ EscrowOpen) =>
        /\ \A t \in Times :
               available(metadata, t) # Panic
                   => available(metadata, t) <= Deposited - Withdrawn
        /\ \A acc \in AllWithdrawCalls :
               \A a \in EscrowRequests(withdraw(acc, 0).trace) : a <= tokens[EscrowKey]
        /\ \A acc \in CancelCalls :
               \A a \in EscrowRequests(cancel(acc).trace) : a <= tokens[EscrowKey]

----------------------------------------------------------------------------
\* payloads whose timestamps pass duration_sanity and whose amounts make
\* closable divide: a partially funded stream releasing less than one token a
\* second, and one whose cliff_amount is above total_amount
ClosableTerms ==
    StreamTerms \cup {Terms(3, 3, 1, 0, 3, 0), Terms(3, 3, 1, 0, 5, 0) }

\* C27: for every payload that passes the validation of create, create and
\* every later top-up end in success or in a declared error, never in a panic:
\* closable does not divide by zero and total_amount - cliff_amount does not
\* underflow.
ClosableNeverPanics ==
    /\ (~Created /\ data_is_empty(EscrowKey)) =>
           \A ix \in ClosableTerms :
               create(InitializeAccounts(FundedWallet, "bob"), ix, 6).err # "Panic"
    /\ (Created /\ EscrowOpen) =>
           /\ closable(metadata) # Panic
           /\ \A acc \in TopUpCalls : \A amount \in TopUpAmounts :
                  topup_stream(acc, amount).err # "Panic"

----------------------------------------------------------------------------
\* C28: in every reachable state the stored closable_at is closable(record) of
\* the current record: the threshold cancel reads (closable_at) and the one
\* topup_stream evaluates (closable()) are the same value, for fully funded
\* streams too, where create stores end_time without calling closable.
ClosableAtIsClosable == Created => metadata.closable_at = closable(metadata)

----------------------------------------------------------------------------
(* Streams without a release rate, cancelled late by whoever comes by *)

\* payloads with release_rate = 0: fully and partially funded, with a period of
\* 0, 1 or 2 seconds, with a cliff, handed on by the recipient or not
SettleTerms ==
    {[Terms(en, dep, per, 0, 0, 0) EXCEPT !.transferable_by_recipient = tr] :
         en \in {3, 4}, dep \in {2, 4}, per \in {0, 1, 2}, tr \in BOOLEAN}
    \cup {Terms(3, 4, 1, 2, 1, 0)}

\* the funded wallet creates a stream of SettleTerms for bob
SettleCreate ==
    /\ metadata.magic = 0
    /\ \E ix \in SettleTerms :
          Commit("create", create(InitializeAccounts(FundedWallet, "bob"), ix, 6))

\* the recipient withdraws
SettleWithdraw ==
    /\ metadata.magic # 0
    /\ \E amount \in {0, 1} :
          Commit("withdraw", withdraw(WithdrawAccounts(metadata.recipient, TRUE), amount))

\* the recipient hands the stream on
SettleTransfer ==
    /\ metadata.magic # 0
    /\ \E n \in Wallets :
          Commit("transfer_recipient",
                 transfer_recipient(TransferAccounts(metadata.recipient, TRUE, n)))

\* any wallet attempts a cancel with the accounts of the record, unsigned
SettleCancel ==
    /\ metadata.magic # 0
    /\ \E a \in Wallets : Commit("cancel", cancel(CancelAccounts(a, FALSE)))

SettleNext ==
    \/ SettleCreate
    \/ SettleWithdraw
    \/ SettleTransfer
    \/ SettleCancel
    \/ Tick
    \/ CreateTokenAccount

\* the clock advances and the cancel is attempted again and again; nobody is
\* bound to withdraw, to hand the stream on or to open a token account
SettleSpec ==
    Init /\ [][SettleNext]_vars /\ WF_vars(Tick) /\ WF_vars(SettleCancel)

\* a stream without a release rate whose escrow is open
LockedStream == Created /\ EscrowOpen /\ metadata.ix.release_rate = 0

\* C29: for a stream with release_rate = 0 and an open escrow, at every time
\* now >= end_time a cancel with the accounts of the record succeeds for any
\* authority without a signature; so, the clock advancing and the cancel being
\* attempted fairly, the escrow of every such stream is eventually closed.
LateCancelReleasesEscrow ==
    /\ []((LockedStream /\ now >= metadata.ix.end_time) =>
              \A a \in Wallets : cancel(CancelAccounts(a, FALSE)).err = "Ok")
    /\ (LockedStream ~> ~EscrowOpen)

====
